---- MODULE Spec2Model ----
(***************************************************************************)
(* Model of the ATENA framework: the AtenaBot supervisor and its HTTP      *)
(* control plane (main.py) and the task manager (manager.py).              *)
(*                                                                         *)
(* Four specifications share the variables below:                          *)
(*   Spec        the AtenaBot object and the HealthHandler, one call or    *)
(*               one HTTP request per step, in any order;                  *)
(*   SpecManager DependencyManager, CommandExecutor and the CLI;           *)
(*   SpecServer  the server process: main(), the signal handler, the       *)
(*               heartbeat thread and the HTTP listener, interleaved;      *)
(*   SpecServerFair  SpecServer with a fairly scheduled heartbeat thread.  *)
(***************************************************************************)
EXTENDS Integers, Sequences, FiniteSets, TLC

VARIABLES
    running,      \* AtenaBot.running
    start_time,   \* AtenaBot.start_time (NoneTime = None)
    task_count,   \* AtenaBot.task_count
    status,       \* AtenaBot.status
    now,          \* the wall clock, in seconds (datetime.now())
    ticks,        \* number of clock advances so far
    oplog,        \* operation records appended to the log sink since the
                  \* current call, request or signal handler began (in
                  \* SpecManager: since the first invocation)
    req,          \* the current call or HTTP request (NoReq between two)
    responses,    \* HTTP responses sent for that request, in order
    invoked,      \* bot methods invoked by it, in order
    raised,       \* exception that escaped it ("none" if none)
    ret,          \* value returned by that call
    everStarted,  \* history: start() has been called
    lastCall,     \* history: the last of start()/stop() that was called
    firstStart,   \* history: the time of the first start() (NoneTime if none)
    mpc,          \* manager.py: where the current invocation stands
    spawned,      \* manager.py: subprocess.run calls of the current invocation
    calls,        \* manager.py: invocations so far
    printed,      \* manager.py: what the current invocation printed
    cli,          \* manager.py: the CLI process (NoCli outside one)
    pc,           \* server process: where the main thread stands
    sigpc,        \* server process: where the signal handler stands
    hb,           \* server process: where the heartbeat thread stands
    handlers,     \* server process: signals with signal_handler installed
    exited,       \* server process: "alive", or how the process ended
    sigs          \* server process: signals delivered so far

botVars == <<running, start_time, task_count, status>>
stepVars == <<req, responses, invoked, raised, ret>>
histVars == <<everStarted, lastCall, firstStart>>
mgrVars == <<mpc, spawned, calls, printed, cli>>
srvVars == <<pc, sigpc, hb, handlers, exited, sigs>>

\* ------------------------------------------------------------------ bounds
MaxTasks == 2       \* analyze / error-help calls in one behaviour
MaxTicks == 2       \* clock advances in one behaviour
MaxResultSize == 3  \* files plus issues in one analyzer result

\* --------------------------------------------------------------- constants
BOT_NAME == "ATENA"
VERSION == "1.0.0"
NoneTime == -1
NoValue == [kind |-> "none"]
NoReq == [kind |-> "none"]
NoCli == [command |-> "none", pc |-> "none", code |-> 0]

\* Seconds by which the clock may advance between two steps.
ClockSteps == {1, 3600}

\* ------------------------------------------------------------ collaborators
\* core.logger.log_operation: appends one operation record to the sink.
log_operation(log, name, st, detail) ==
    Append(log, [op |-> name, status |-> st, detail |-> detail])

\* core.logger.log_error: appends the FAILED record of an operation, with the
\* stringified error as detail.
log_error(log, name, err) ==
    Append(log, [op |-> name, status |-> "FAILED", detail |-> err])

Severities == {"HIGH", "MEDIUM", "LOW"}
\* Severity tags the analyzer may put on an issue.
IssueTags == Severities \cup {"INFO"}

SeqsUpTo(S, n) == UNION {[1..k -> S] : k \in 0..n}

\* What CodeAnalyzer.analyze_path can do: return per-file results (each the
\* list of its issues' severity tags) or raise.
\* The analyzer results of at most n files and issues together.
RECURSIVE ResultsUpTo(_)
ResultsUpTo(n) ==
    IF n = 0 THEN {<<>>}
    ELSE {<<>>} \cup
         UNION {{<<is>> \o rest : rest \in ResultsUpTo(n - 1 - Len(is))} :
                    is \in SeqsUpTo(IssueTags, n - 1)}

AnalyzerOutcomes ==
    {[raises |-> TRUE, results |-> <<>>]} \cup
    {[raises |-> FALSE, results |-> rs] : rs \in ResultsUpTo(MaxResultSize)}

\* What DocAssistant.analyze_error can do: return a payload or raise.
DocOutcomes == {"returns", "raises"}

\* ---------------------------------------------------------------- AtenaBot
RECURSIVE SumLen(_)
SumLen(rs) == IF rs = <<>> THEN 0 ELSE Len(Head(rs)) + SumLen(Tail(rs))

RECURSIVE Flatten(_)
Flatten(rs) == IF rs = <<>> THEN <<>> ELSE Head(rs) \o Flatten(Tail(rs))

RECURSIVE CountTag(_, _)
CountTag(is, tag) ==
    IF is = <<>> THEN 0
    ELSE (IF Head(is) = tag THEN 1 ELSE 0) + CountTag(Tail(is), tag)

\* divmod(int(delta), 3600) then divmod(remainder, 60), formatted.
FormatUptime(delta) ==
    [text |-> "hms", h |-> delta \div 3600,
     m |-> (delta % 3600) \div 60, s |-> (delta % 3600) % 60]

NotStarted == [text |-> "Not started", h |-> 0, m |-> 0, s |-> 0]

\* Truth value of start_time: None is false, every datetime is true.
TimeIsSet(t) == t # NoneTime

get_uptime(st, t) ==
    IF ~TimeIsSet(st) THEN NotStarted ELSE FormatUptime(t - st)

get_status(stat, st, tc, t) ==
    [name |-> BOT_NAME, status |-> stat, uptime |-> get_uptime(st, t),
     tasks_processed |-> tc, start_time |-> st, current_time |-> t,
     version |-> VERSION]

\* analyze_project that counts the task only once the analyzer has returned.
analyze_project_CountsOnReturn(tc, log, path, out) ==
    LET log1 == log_operation(log, "analyze_project", "STARTED", path)
        total == SumLen(out.results)
    IN  IF out.raises
        THEN [tc |-> tc, log |-> log1, ret |-> NoValue,
              raised |-> "AnalyzerError"]
        ELSE [tc |-> tc + 1,
              log |-> log_operation(log1, "analyze_project", "COMPLETED", total),
              ret |-> [files_analyzed |-> Len(out.results),
                       total_issues |-> total],
              raised |-> "none"]

\* analyze_project that catches the analyzer's exception and returns an
\* empty summary.
analyze_project_CatchesAnalyzer(tc, log, path, out) ==
    LET log1 == log_operation(log, "analyze_project", "STARTED", path)
        issues == Flatten(out.results)
        total == SumLen(out.results)
        unknown == \E i \in 1..Len(issues) : issues[i] \notin Severities
    IN  IF unknown
        THEN [tc |-> tc + 1, log |-> log1, ret |-> NoValue,
              raised |-> "KeyError"]
        ELSE [tc |-> tc + 1,
              log |-> log_operation(log1, "analyze_project", "COMPLETED", total),
              ret |-> [files_analyzed |-> Len(out.results),
                       total_issues |-> total,
                       issues_by_severity |->
                           [s \in Severities |-> CountTag(issues, s)]],
              raised |-> "none"]

\* analyze_project(path) with the analyzer doing `out`: the new task_count,
\* the new log, the returned summary and the exception that escapes.
analyze_project(tc, log, path, out) ==
    LET log1 == log_operation(log, "analyze_project", "STARTED", path)
        issues == Flatten(out.results)
        total == SumLen(out.results)
        unknown == \E i \in 1..Len(issues) : issues[i] \notin Severities
        summary == [files_analyzed |-> Len(out.results),
                    total_issues |-> total,
                    issues_by_severity |->
                        [s \in Severities |-> CountTag(issues, s)]]
    IN  IF out.raises
        THEN [tc |-> tc + 1, log |-> log1, ret |-> NoValue,
              raised |-> "AnalyzerError"]
        ELSE IF unknown
        THEN [tc |-> tc + 1, log |-> log1, ret |-> NoValue,
              raised |-> "KeyError"]
        ELSE [tc |-> tc + 1,
              log |-> log_operation(log1, "analyze_project", "COMPLETED", total),
              ret |-> summary,
              raised |-> "none"]

\* get_error_help(message) with the doc assistant doing `out`.
get_error_help(tc, msg, out) ==
    IF out = "raises"
    THEN [tc |-> tc + 1, ret |-> NoValue, raised |-> "DocAssistantError"]
    ELSE [tc |-> tc + 1, ret |-> [kind |-> "help", message |-> msg],
          raised |-> "none"]

\* AtenaBot.__init__
BotInit ==
    /\ running = FALSE
    /\ start_time = NoneTime
    /\ task_count = 0
    /\ status = "initialized"

\* start() that keeps the start time of a bot that was started before.
Start_KeepsStartTime ==
    /\ req = NoReq
    /\ running' = TRUE
    /\ start_time' = IF TimeIsSet(start_time) THEN start_time ELSE now
    /\ status' = "running"
    /\ oplog' = log_operation(oplog, "bot_start", "SUCCESS", start_time')
    /\ req' = [kind |-> "call", name |-> "start"]
    /\ invoked' = <<"start">>
    /\ raised' = "none"
    /\ ret' = NoValue
    /\ responses' = <<>>
    /\ everStarted' = TRUE
    /\ lastCall' = "start"
    /\ firstStart' = IF everStarted THEN firstStart ELSE now
    /\ UNCHANGED <<task_count, now, ticks, mgrVars, srvVars>>

Start ==
    /\ req = NoReq
    /\ running' = TRUE
    /\ start_time' = now
    /\ status' = "running"
    /\ oplog' = log_operation(oplog, "bot_start", "SUCCESS", now)
    /\ req' = [kind |-> "call", name |-> "start"]
    /\ invoked' = <<"start">>
    /\ raised' = "none"
    /\ ret' = NoValue
    /\ responses' = <<>>
    /\ everStarted' = TRUE
    /\ lastCall' = "start"
    /\ firstStart' = IF everStarted THEN firstStart ELSE now
    /\ UNCHANGED <<task_count, now, ticks, mgrVars, srvVars>>

\* stop() that clears the flag and leaves the status as it was.
Stop_KeepsStatus ==
    /\ req = NoReq
    /\ running' = FALSE
    /\ oplog' = log_operation(oplog, "bot_stop", "SUCCESS", 0)
    /\ req' = [kind |-> "call", name |-> "stop"]
    /\ invoked' = <<"stop">>
    /\ raised' = "none"
    /\ ret' = NoValue
    /\ responses' = <<>>
    /\ lastCall' = "stop"
    /\ UNCHANGED <<start_time, status, task_count, now, ticks, everStarted,
                   firstStart,
                   mgrVars, srvVars>>

Stop ==
    /\ req = NoReq
    /\ running' = FALSE
    /\ status' = "stopped"
    /\ oplog' = log_operation(oplog, "bot_stop", "SUCCESS", 0)
    /\ req' = [kind |-> "call", name |-> "stop"]
    /\ invoked' = <<"stop">>
    /\ raised' = "none"
    /\ ret' = NoValue
    /\ responses' = <<>>
    /\ lastCall' = "stop"
    /\ UNCHANGED <<start_time, task_count, now, ticks, everStarted,
                   firstStart,
                   mgrVars, srvVars>>

GetStatus ==
    /\ req = NoReq
    /\ req' = [kind |-> "call", name |-> "get_status"]
    /\ invoked' = <<"get_status">>
    /\ raised' = "none"
    /\ ret' = [kind |-> "status",
               bot |-> get_status(status, start_time, task_count, now)]
    /\ responses' = <<>>
    /\ UNCHANGED <<botVars, now, ticks, oplog, histVars,
                   mgrVars, srvVars>>

AnalyzeProject(path, out) ==
    LET r == analyze_project(task_count, oplog, path, out)
    IN  /\ req = NoReq
        /\ r.tc <= MaxTasks
        /\ task_count' = r.tc
        /\ oplog' = r.log
        /\ req' = [kind |-> "call", name |-> "analyze_project"]
        /\ invoked' = <<"analyze_project">>
        /\ raised' = r.raised
        /\ ret' = r.ret
        /\ responses' = <<>>
            /\ UNCHANGED <<running, start_time, status, now, ticks,
                       histVars, mgrVars, srvVars>>

GetErrorHelp(msg, out) ==
    LET r == get_error_help(task_count, msg, out)
    IN  /\ req = NoReq
        /\ r.tc <= MaxTasks
        /\ task_count' = r.tc
        /\ req' = [kind |-> "call", name |-> "get_error_help"]
        /\ invoked' = <<"get_error_help">>
        /\ raised' = r.raised
        /\ ret' = r.ret
        /\ responses' = <<>>
            /\ UNCHANGED <<running, start_time, status, now, ticks, oplog,
                       histVars, mgrVars, srvVars>>

\* The clock advances between two calls or requests.
Tick ==
    /\ req = NoReq
    /\ ticks < MaxTicks
    /\ \E d \in ClockSteps : now' = now + d
    /\ ticks' = ticks + 1
    /\ UNCHANGED <<botVars, oplog, stepVars, histVars, mgrVars, srvVars>>

\* The call has returned, or the request's connection is closed: the caller
\* or the server goes on to the next one.
Done ==
    /\ req # NoReq
    /\ req' = NoReq
    /\ responses' = <<>>
    /\ invoked' = <<>>
    /\ raised' = "none"
    /\ ret' = NoValue
    /\ oplog' = <<>>
    /\ UNCHANGED <<botVars, now, ticks, histVars, mgrVars, srvVars>>

\* ------------------------------------------------------------ HealthHandler
\* Request paths, as character sequences.
PRoot == <<"/">>
PHealth == <<"/", "h", "e", "a", "l", "t", "h">>
PStatus == <<"/", "s", "t", "a", "t", "u", "s">>
PAnalyze == <<"/", "a", "n", "a", "l", "y", "z", "e">>
PAnalyzeSrc == PAnalyze \o <<"/", "s", "r", "c">>
PLogs == <<"/", "l", "o", "g", "s">>
PErrorHelp == <<"/", "e", "r", "r", "o", "r", "-", "h", "e", "l", "p">>
PUnknown == <<"/", "u", "n", "k", "n", "o", "w", "n", "-", "r", "o", "u", "t", "e">>
Dot == <<".">>

Paths == {PRoot, PHealth, PStatus, PAnalyze, PAnalyzeSrc, PLogs, PErrorHelp,
          PUnknown}

\* str.startswith
StartsWith(s, prefix) ==
    /\ Len(s) >= Len(prefix)
    /\ SubSeq(s, 1, Len(prefix)) = prefix

\* s[k:] for 0 <= k
SliceFrom(s, k) == SubSeq(s, k + 1, Len(s))

\* The log file: absent, or `n` >= 1 one-character lines (line i is the
\* character i), each followed by a newline except perhaps the last.
NL == 0
LOG_TAIL == 50
LineCounts == {1, 2, 49, 50, 51, 100}

FileText(n, terminated) ==
    [k \in 1..(IF terminated THEN 2 * n ELSE 2 * n - 1) |->
        IF k % 2 = 1 THEN (k + 1) \div 2 ELSE NL]

NoFile == [exists |-> FALSE, n |-> 0, terminated |-> FALSE]

LogFiles ==
    {NoFile} \cup
    {[exists |-> TRUE, n |-> n, terminated |-> t] :
        n \in LineCounts, t \in BOOLEAN}

\* Path.read_text()
read_text(file) == FileText(file.n, file.terminated)

\* str.split(sep): the pieces between the separators, k + 1 pieces for k
\* separators. The pieces of text[lo..hi] are those of its two halves, the
\* last piece of the left half continuing into the first of the right half.
RECURSIVE SplitRange(_, _, _, _)
SplitRange(text, sep, lo, hi) ==
    IF lo > hi THEN << <<>> >>
    ELSE IF lo = hi
    THEN (IF text[lo] = sep THEN << <<>>, <<>> >> ELSE << <<text[lo]>> >>)
    ELSE LET mid == (lo + hi) \div 2
             L == SplitRange(text, sep, lo, mid)
             R == SplitRange(text, sep, mid + 1, hi)
         IN  SubSeq(L, 1, Len(L) - 1) \o << L[Len(L)] \o R[1] >>
                 \o SubSeq(R, 2, Len(R))

Split(text, sep) == SplitRange(text, sep, 1, Len(text))

\* seq[-k:]
LastK(seq, k) ==
    IF Len(seq) <= k THEN seq ELSE SubSeq(seq, Len(seq) - k + 1, Len(seq))

Response(code, body) == [code |-> code, body |-> body]
ErrorBody(msg) == [error |-> msg]

\* A handler's effect: the new task_count and log, the responses it sent, the
\* bot methods it invoked and the exception that escaped it.
Effect(tc, log, rs, inv, exc) ==
    [tc |-> tc, log |-> log, responses |-> rs, invoked |-> inv, raised |-> exc]

\* A handler branch that calls analyze_project(path) and sends its result.
AnalyzeRoute(tc, log, path, out) ==
    LET r == analyze_project(tc, log, path, out)
    IN  Effect(r.tc, r.log,
               IF r.raised = "none" THEN <<Response(200, r.ret)>> ELSE <<>>,
               <<"analyze_project">>, r.raised)

\* do_GET that counts a health or status read as a task.
do_GET_CountsReads(path, file, out, stat, st, tc, t, log) ==
    IF path = PRoot \/ path = PHealth
    THEN Effect(tc + 1, log,
                <<Response(200, [status |-> "healthy",
                                 bot |-> get_status(stat, st, tc + 1, t)])>>,
                <<"get_status">>, "none")
    ELSE IF path = PStatus
    THEN Effect(tc + 1, log, <<Response(200, get_status(stat, st, tc + 1, t))>>,
                <<"get_status">>, "none")
    ELSE IF path = PAnalyze
    THEN AnalyzeRoute(tc, log, Dot, out)
    ELSE IF StartsWith(path, PAnalyze \o <<"/">>)
    THEN AnalyzeRoute(tc, log, SliceFrom(path, 9), out)
    ELSE IF path = PLogs
    THEN Effect(tc, log, <<Response(200, [logs |-> <<>>])>>, <<>>, "none")
    ELSE Effect(tc, log, <<Response(404, ErrorBody("Not found"))>>, <<>>, "none")

do_GET(path, file, out, stat, st, tc, t, log) ==
    IF path = PRoot \/ path = PHealth
    THEN Effect(tc, log,
                <<Response(200, [status |-> "healthy",
                                 bot |-> get_status(stat, st, tc, t)])>>,
                <<"get_status">>, "none")
    ELSE IF path = PStatus
    THEN Effect(tc, log, <<Response(200, get_status(stat, st, tc, t))>>,
                <<"get_status">>, "none")
    ELSE IF path = PAnalyze
    THEN AnalyzeRoute(tc, log, Dot, out)
    ELSE IF StartsWith(path, PAnalyze \o <<"/">>)
    THEN AnalyzeRoute(tc, log, SliceFrom(path, 9), out)
    ELSE IF path = PLogs
    THEN IF file.exists
         THEN Effect(tc, log,
                     <<Response(200, [logs |-> LastK(Split(read_text(file), NL),
                                                     LOG_TAIL)])>>,
                     <<>>, "none")
         ELSE Effect(tc, log, <<Response(200, [logs |-> <<>>])>>, <<>>, "none")
    ELSE Effect(tc, log, <<Response(404, ErrorBody("Not found"))>>, <<>>, "none")

\* Request bodies on the wire (Content-Length is the body's length).
BEmpty == ""
BObject == "{}"
BNotJson == "not json"
BBadUtf8 == "\\xff"
BArray == "[]"
BErrorEmpty == "{\"error\": \"\"}"
BError == "{\"error\": \"NameError: x\"}"
BPath == "{\"path\": \"src\"}"

Bodies == {BEmpty, BObject, BNotJson, BBadUtf8, BArray, BErrorEmpty, BError,
           BPath}

\* bytes.decode(): the text, or UnicodeDecodeError for bytes that are not UTF-8.
Decode(b) ==
    IF b = BBadUtf8 THEN [ok |-> FALSE, text |-> ""]
    ELSE [ok |-> TRUE, text |-> b]

JsonObject(hasError, error, hasPath, path) ==
    [type |-> "object", hasError |-> hasError, error |-> error,
     hasPath |-> hasPath, path |-> path]

\* json.loads(text): the value, or JSONDecodeError.
JsonLoads(text) ==
    CASE text = BObject -> [ok |-> TRUE, val |-> JsonObject(FALSE, "", FALSE, <<>>)]
      [] text = BArray -> [ok |-> TRUE, val |-> [type |-> "array"]]
      [] text = BErrorEmpty ->
            [ok |-> TRUE, val |-> JsonObject(TRUE, "", FALSE, <<>>)]
      [] text = BError ->
            [ok |-> TRUE, val |-> JsonObject(TRUE, "NameError: x", FALSE, <<>>)]
      [] text = BPath ->
            [ok |-> TRUE,
             val |-> JsonObject(FALSE, "", TRUE, <<"s", "r", "c">>)]
      [] OTHER -> [ok |-> FALSE, val |-> [type |-> "none"]]

do_POST(path, wire, aout, dout, tc, log) ==
    LET dec == IF Len(wire) > 0 THEN Decode(wire)
               ELSE [ok |-> TRUE, text |-> BObject]
        parsed == IF dec.text # "" THEN JsonLoads(dec.text)
                  ELSE [ok |-> TRUE, val |-> JsonObject(FALSE, "", FALSE, <<>>)]
        data == parsed.val
    IN  IF ~dec.ok
        THEN Effect(tc, log, <<>>, <<>>, "UnicodeDecodeError")
        ELSE IF ~parsed.ok
        THEN Effect(tc, log, <<Response(400, ErrorBody("Invalid JSON"))>>,
                    <<>>, "none")
        ELSE IF path = PErrorHelp
        THEN IF data.type # "object"
             THEN Effect(tc, log, <<>>, <<>>, "AttributeError")
             ELSE LET error_msg == IF data.hasError THEN data.error ELSE ""
                  IN  IF error_msg = ""
                      THEN Effect(tc, log,
                              <<Response(400, ErrorBody("Missing 'error' field"))>>,
                              <<>>, "none")
                      ELSE LET r == get_error_help(tc, error_msg, dout)
                           IN  Effect(r.tc, log,
                                      IF r.raised = "none"
                                      THEN <<Response(200, r.ret)>> ELSE <<>>,
                                      <<"get_error_help">>, r.raised)
        ELSE IF path = PAnalyze
        THEN IF data.type # "object"
             THEN Effect(tc, log, <<>>, <<>>, "AttributeError")
             ELSE AnalyzeRoute(tc, log,
                               IF data.hasPath THEN data.path ELSE Dot, aout)
        ELSE Effect(tc, log, <<Response(404, ErrorBody("Not found"))>>,
                    <<>>, "none")

\* HealthHandler defines do_GET and do_POST only: for any other method the
\* base handler answers 501 with its own error page.
OtherMethods == {"PUT", "DELETE", "HEAD"}

do_OTHER(method, tc, log) ==
    Effect(tc, log,
           <<Response(501, [html |-> "Unsupported method", method |-> method])>>,
           <<>>, "none")

\* One HTTP request handled from start to end.
Handle(request, e) ==
    /\ req = NoReq
    /\ e.tc <= MaxTasks
    /\ task_count' = e.tc
    /\ oplog' = e.log
    /\ req' = request
    /\ responses' = e.responses
    /\ invoked' = e.invoked
    /\ raised' = e.raised
    /\ ret' = NoValue
    /\ UNCHANGED <<running, start_time, status, now, ticks,
                   histVars, mgrVars, srvVars>>

Request(method, path, body, file) ==
    [kind |-> "http", method |-> method, path |-> path, body |-> body,
     file |-> file]

NoOutcome == [raises |-> FALSE, results |-> <<>>]

\* The inputs a request's handling depends on, and no others.
AnalyzerOutcomesFor(method, path, body) ==
    IF \/ method = "GET" /\ (path = PAnalyze \/ StartsWith(path, PAnalyze \o <<"/">>))
       \/ method = "POST" /\ path = PAnalyze /\ Decode(body).ok
    THEN AnalyzerOutcomes ELSE {NoOutcome}

DocOutcomesFor(path) == IF path = PErrorHelp THEN DocOutcomes ELSE {"returns"}

HttpGet ==
    \E path \in Paths :
      \E out \in AnalyzerOutcomesFor("GET", path, BEmpty),
         file \in (IF path = PLogs THEN LogFiles ELSE {NoFile}) :
        Handle(Request("GET", path, BEmpty, file),
               do_GET(path, file, out, status, start_time, task_count, now,
                      oplog))

HttpPost ==
    \E path \in Paths, body \in Bodies :
      \E aout \in AnalyzerOutcomesFor("POST", path, body),
         dout \in DocOutcomesFor(path) :
        Handle(Request("POST", path, body, NoFile),
               do_POST(path, body, aout, dout, task_count, oplog))

HttpOther ==
    \E method \in OtherMethods, path \in Paths :
        Handle(Request(method, path, BEmpty, NoFile),
               do_OTHER(method, task_count, oplog))

CallAnalyzeProject ==
    \E path \in {Dot, <<"s", "r", "c">>}, out \in AnalyzerOutcomes :
        AnalyzeProject(path, out)

CallGetErrorHelp ==
    \E msg \in {"NameError: x"}, out \in DocOutcomes : GetErrorHelp(msg, out)

vars == <<running, start_time, task_count, status, now, ticks, oplog, req,
          responses, invoked, raised, ret, everStarted, lastCall, firstStart,
          mpc, spawned, calls, printed, cli, pc, sigpc, hb, handlers, exited,
          sigs>>

\* manager.py before any invocation.
MgrInit ==
    /\ mpc = "idle"
    /\ spawned = 0
    /\ calls = 0
    /\ printed = <<>>
    /\ cli = NoCli

\* The server process before main() runs: the module is imported, the bot
\* constructed, no handler installed, no thread started.
SrvInit ==
    /\ pc = "register_sigint"
    /\ sigpc = "none"
    /\ hb = "unborn"
    /\ handlers = {}
    /\ exited = "alive"
    /\ sigs = 0

Init ==
    /\ BotInit
    /\ now = 0
    /\ ticks = 0
    /\ oplog = <<>>
    /\ req = NoReq
    /\ responses = <<>>
    /\ invoked = <<>>
    /\ raised = "none"
    /\ ret = NoValue
    /\ everStarted = FALSE
    /\ lastCall = "none"
    /\ firstStart = NoneTime
    /\ MgrInit
    /\ SrvInit

Next ==
    \/ Start
    \/ Stop
    \/ GetStatus
    \/ CallAnalyzeProject
    \/ CallGetErrorHelp
    \/ HttpGet
    \/ HttpPost
    \/ HttpOther
    \/ Tick
    \/ Done

Spec == Init /\ [][Next]_vars

\* ================================================================ manager.py
MaxCalls == 2     \* manager invocations in one behaviour

Commands == {"echo hello", "sleep 400"}
Packages == {"requests"}
ExitCodes == {0, 1, 2}
Outputs == {"", "hello\n"}
ErrOutputs == {"", "boom\n"}
LaunchErrors == {"[Errno 2] No such file or directory"}
RequirementsPath == "requirements.txt"

\* What subprocess.run can do: complete with an exit code and the two
\* captured streams, run past the timeout (when one is given), or fail to
\* execute at all.
Completed(rc, out, err) ==
    [kind |-> "completed", returncode |-> rc, stdout |-> out, stderr |-> err,
     msg |-> ""]
TimedOut == [kind |-> "timeout", returncode |-> 0, stdout |-> "", stderr |-> "",
             msg |-> ""]
LaunchFailed(msg) ==
    [kind |-> "error", returncode |-> 0, stdout |-> "", stderr |-> "",
     msg |-> msg]

CompletedOutcomes ==
    {Completed(rc, out, err) :
        rc \in ExitCodes, out \in Outputs, err \in ErrOutputs}
FailedOutcomes == {LaunchFailed(m) : m \in LaunchErrors}
\* subprocess.run(..., timeout=timeout)
TimedRunOutcomes == CompletedOutcomes \cup {TimedOut} \cup FailedOutcomes
\* subprocess.run(...) without a timeout
RunOutcomes == CompletedOutcomes \cup FailedOutcomes

Returned(log, val, out) ==
    [log |-> log, ret |-> val, raised |-> "none", printed |-> out]
Raised(log, exc) ==
    [log |-> log, ret |-> NoValue, raised |-> exc, printed |-> <<>>]

Triple(success, out, err) ==
    [kind |-> "triple", success |-> success, stdout |-> out, stderr |-> err]
Bool(b) == [kind |-> "bool", value |-> b]

\* CommandExecutor.run that has no handler of its own for the timeout, which
\* the generic handler then reports with the exception's text.
run_NoTimeoutBranch(log, command, o) ==
    IF o.kind = "completed"
    THEN Returned(log_operation(log, "command_execute",
                                IF o.returncode = 0 THEN "SUCCESS" ELSE "FAILED",
                                <<"Exit code: ", ToString(o.returncode)>>),
                  Triple(o.returncode = 0, o.stdout, o.stderr), <<>>)
    ELSE IF o.kind = "timeout"
    THEN Returned(log_error(log, "command_execute",
                            <<"Command timed out after ", command>>),
                  Triple(FALSE, "", "timed out after 300 seconds"), <<>>)
    ELSE Returned(log_error(log, "command_execute", <<o.msg>>),
                  Triple(FALSE, "", o.msg), <<>>)

\* CommandExecutor.run that logs nothing when the command does not complete.
run_SilentFailure(log, command, o) ==
    IF o.kind = "completed"
    THEN Returned(log_operation(log, "command_execute",
                                IF o.returncode = 0 THEN "SUCCESS" ELSE "FAILED",
                                <<"Exit code: ", ToString(o.returncode)>>),
                  Triple(o.returncode = 0, o.stdout, o.stderr), <<>>)
    ELSE IF o.kind = "timeout"
    THEN Returned(log, Triple(FALSE, "", "Command timed out"), <<>>)
    ELSE Returned(log, Triple(FALSE, "", o.msg), <<>>)

\* CommandExecutor.run from the subprocess.run call on (lines 89-107), with
\* subprocess.run doing `o`.
run(log, command, o) ==
    IF o.kind = "completed"
    THEN LET success == o.returncode = 0
             st == IF success THEN "SUCCESS" ELSE "FAILED"
         IN  Returned(log_operation(log, "command_execute", st,
                                    <<"Exit code: ", ToString(o.returncode)>>),
                      Triple(success, o.stdout, o.stderr), <<>>)
    ELSE IF o.kind = "timeout"
    THEN Returned(log_error(log, "command_execute",
                            <<"Command timed out: ", command>>),
                  Triple(FALSE, "", "Command timed out"), <<>>)
    ELSE Returned(log_error(log, "command_execute", <<o.msg>>),
                  Triple(FALSE, "", o.msg), <<>>)

\* install_dependencies from the subprocess.run(check=True) call on (lines
\* 41-53): a non-zero exit is CalledProcessError, which is caught; anything
\* else subprocess.run raises is not.
install_dependencies(log, path, o) ==
    IF o.kind = "completed" /\ o.returncode = 0
    THEN Returned(log_operation(log, "install_dependencies", "SUCCESS",
                                <<"Installed from ", path>>),
                  Bool(TRUE), <<>>)
    ELSE IF o.kind = "completed"
    THEN Returned(log_error(log, "install_dependencies",
                            <<"returned non-zero exit status ", ToString(o.returncode)>>),
                  Bool(FALSE), <<"Error output: ", o.stderr>>)
    ELSE Raised(log, "OSError")

\* install_package from the subprocess.run(check=True) call on (lines 60-66).
install_package(log, package, o) ==
    IF o.kind = "completed" /\ o.returncode = 0
    THEN Returned(log_operation(log, "install_package", "SUCCESS", <<package>>),
                  Bool(TRUE), <<>>)
    ELSE IF o.kind = "completed"
    THEN Returned(log_error(log, "install_package",
                            <<"returned non-zero exit status ", ToString(o.returncode)>>),
                  Bool(FALSE), <<>>)
    ELSE Raised(log, "OSError")

\* The listings pip can write: one-character lines, each newline-terminated.
ListingTexts == {<<>>, <<1, NL>>, <<1, NL, 2, NL>>}
ListOutcomes ==
    {Completed(rc, text, "") : rc \in {0, 1}, text \in ListingTexts}
        \cup FailedOutcomes

\* str.strip(): without the leading and trailing whitespace.
RECURSIVE StripLeft(_)
StripLeft(t) == IF t # <<>> /\ Head(t) = NL THEN StripLeft(Tail(t)) ELSE t
RECURSIVE StripRight(_)
StripRight(t) ==
    IF t # <<>> /\ t[Len(t)] = NL THEN StripRight(SubSeq(t, 1, Len(t) - 1))
    ELSE t
Strip(t) == StripRight(StripLeft(t))

\* list_installed: the listing is whatever the subprocess wrote, whatever its
\* exit code; nothing subprocess.run raises is caught.
list_installed(log, o) ==
    IF o.kind = "completed"
    THEN Returned(log, [kind |-> "listing",
                        lines |-> Split(Strip(o.stdout), NL)], <<>>)
    ELSE Raised(log, "OSError")

Invocation(name, arg, upgrade) ==
    [kind |-> "call", name |-> name, arg |-> arg, upgrade |-> upgrade,
     outcome |-> [kind |-> "none"]]

mgrFrame == <<botVars, now, ticks, responses, invoked, histVars, srvVars>>

\* A manager invocation begins, from the CLI process `c` or (NoCli) from a
\* caller of the library, and runs up to its subprocess.run call, or returns
\* `val` without one (where = "idle").
Call(inv, where, val, log, c) ==
    /\ mpc = "idle"
    /\ cli.pc # "called"
    /\ cli' = c
    /\ calls < MaxCalls
    /\ calls' = calls + 1
    /\ req' = inv
    /\ ret' = val
    /\ raised' = "none"
    /\ printed' = <<>>
    /\ spawned' = 0
    /\ oplog' = log
    /\ mpc' = where
    /\ UNCHANGED mgrFrame

Begin(inv, where, val, log) == Call(inv, where, val, log, NoCli)

\* The invocation's subprocess.run call is made and does `o`; the invocation
\* ends as `r` says.
End(o, r) ==
    /\ req' = [req EXCEPT !.outcome = o]
    /\ spawned' = spawned + 1
    /\ oplog' = r.log
    /\ ret' = r.ret
    /\ raised' = r.raised
    /\ printed' = r.printed
    /\ mpc' = "idle"
    /\ UNCHANGED <<calls, cli, mgrFrame>>

\* CommandExecutor.run up to the subprocess.run call (line 87).
RunCall(command, c) ==
    Call(Invocation("run", command, FALSE), "run", NoValue,
         log_operation(oplog, "command_execute", "STARTED", <<command>>), c)

RunBegin == \E command \in Commands : RunCall(command, NoCli)

RunEnd ==
    /\ mpc = "run"
    /\ \E o \in TimedRunOutcomes : End(o, run(oplog, req.arg, o))

\* install_dependencies that does not look for the manifest before it builds
\* the command.
InstallDependenciesCall_NoExistsCheck(exists, upgrade, c) ==
    Call(Invocation("install_dependencies",
                    IF exists THEN "manifest" ELSE "no manifest", upgrade),
         "install_dependencies", NoValue,
         log_operation(oplog, "install_dependencies", "STARTED",
                       <<RequirementsPath>>), c)

\* install_dependencies up to the subprocess.run call (lines 29-39): without
\* the manifest it logs the error and returns False at once.
InstallDependenciesCall(exists, upgrade, c) ==
    IF exists
    THEN Call(Invocation("install_dependencies", "manifest", upgrade),
              "install_dependencies", NoValue,
              log_operation(oplog, "install_dependencies", "STARTED",
                            <<RequirementsPath>>), c)
    ELSE Call(Invocation("install_dependencies", "no manifest", upgrade),
              "idle", Bool(FALSE),
              log_error(oplog, "install_dependencies",
                        <<"Requirements file not found: ", RequirementsPath>>),
              c)

InstallDependenciesBegin ==
    \E exists \in BOOLEAN, upgrade \in BOOLEAN :
        InstallDependenciesCall(exists, upgrade, NoCli)

InstallDependenciesEnd ==
    /\ mpc = "install_dependencies"
    /\ \E o \in RunOutcomes :
          End(o, install_dependencies(oplog, RequirementsPath, o))

\* install_package up to the subprocess.run call (lines 57-58).
InstallPackageCall(package, c) ==
    Call(Invocation("install_package", package, FALSE),
         "install_package", NoValue,
         log_operation(oplog, "install_package", "STARTED", <<package>>), c)

InstallPackageBegin ==
    \E package \in Packages : InstallPackageCall(package, NoCli)

InstallPackageEnd ==
    /\ mpc = "install_package"
    /\ \E o \in RunOutcomes : End(o, install_package(oplog, req.arg, o))

ListInstalledBegin ==
    Begin(Invocation("list_installed", "", FALSE), "list_installed", NoValue,
          oplog)

ListInstalledEnd ==
    /\ mpc = "list_installed"
    /\ \E o \in ListOutcomes : End(o, list_installed(oplog, o))

\* ----------------------------------------------------- manager.py main()
\* The CLI process inside the call its subcommand makes.
CliMain(command) == [command |-> command, pc |-> "called", code |-> 0]
\* The CLI process after it has ended with exit status `code`.
CliExited(command, code) ==
    [command |-> command, pc |-> "exited", code |-> code]

\* --package values on the command line; the empty one is falsy.
CliPackages == Packages \cup {""}
CliPaths == {".", "no/such/dir"}
\* What CodeAnalyzer.analyze_path does for the CLI.
CliAnalyzerOutcomes ==
    {[raises |-> TRUE, results |-> <<>>],
     [raises |-> FALSE, results |-> <<>>],
     [raises |-> FALSE, results |-> << <<"HIGH">> >>]}

\* The exit status of the interpreter: sys.exit(0 if success else 1), or 1
\* when an exception leaves main().
ExitStatus(exc, success) ==
    IF exc # "none" THEN 1 ELSE IF success THEN 0 ELSE 1

NonEmpty(s) == s # ""

\* `install` (lines 134-140), up to the call's subprocess.run.
CliInstall ==
    \E package \in CliPackages, upgrade \in BOOLEAN, exists \in BOOLEAN :
        IF package # ""
        THEN InstallPackageCall(package, CliMain("install"))
        ELSE InstallDependenciesCall(exists, upgrade, CliMain("install"))

\* `run` (lines 142-144), up to the call's subprocess.run.
CliRun == \E command \in Commands : RunCall(command, CliMain("run"))

\* The call made by `install` or `run` is over: main() prints what `run`
\* captured and exits on the success flag (lines 140, 145-149), unless the
\* call raised.
CliExit ==
    /\ cli.pc = "called"
    /\ mpc = "idle"
    /\ LET success == IF raised # "none" THEN FALSE
                      ELSE IF cli.command = "run" THEN ret.success
                      ELSE ret.value
       IN  cli' = CliExited(cli.command, ExitStatus(raised, success))
    /\ printed' = IF raised = "none" /\ cli.command = "run"
                  THEN printed \o SelectSeq(<<ret.stdout, ret.stderr>>, NonEmpty)
                  ELSE printed
    /\ UNCHANGED <<mpc, spawned, calls, oplog, stepVars, mgrFrame>>

\* `analyze` (lines 151-156): analyze_path, then print_report, and main()
\* returns; nothing the analyzer raises is caught.
CliAnalyze ==
    /\ mpc = "idle"
    /\ cli.pc # "called"
    /\ calls < MaxCalls
    /\ calls' = calls + 1
    /\ \E path \in CliPaths, out \in CliAnalyzerOutcomes :
          /\ req' = [Invocation("analyze_path", path, FALSE)
                        EXCEPT !.outcome = [kind |-> IF out.raises THEN "raised"
                                                     ELSE "returned"]]
          /\ raised' = IF out.raises THEN "AnalyzerError" ELSE "none"
          /\ printed' = IF out.raises THEN <<>>
                        ELSE <<"report", ToString(SumLen(out.results))>>
          /\ cli' = CliExited("analyze",
                              ExitStatus(IF out.raises THEN "AnalyzerError"
                                         ELSE "none", TRUE))
    /\ ret' = NoValue
    /\ spawned' = 0
    /\ UNCHANGED <<mpc, oplog, mgrFrame>>

\* No subcommand (lines 158-159): the usage text, and main() returns.
CliHelp ==
    /\ mpc = "idle"
    /\ cli.pc # "called"
    /\ calls < MaxCalls
    /\ calls' = calls + 1
    /\ req' = Invocation("print_help", "", FALSE)
    /\ raised' = "none"
    /\ ret' = NoValue
    /\ printed' = <<"usage">>
    /\ spawned' = 0
    /\ cli' = CliExited("help", ExitStatus("none", TRUE))
    /\ UNCHANGED <<mpc, oplog, mgrFrame>>

NextManager ==
    \/ RunBegin
    \/ RunEnd
    \/ InstallDependenciesBegin
    \/ InstallDependenciesEnd
    \/ InstallPackageBegin
    \/ InstallPackageEnd
    \/ ListInstalledBegin
    \/ ListInstalledEnd
    \/ CliInstall
    \/ CliRun
    \/ CliAnalyze
    \/ CliHelp
    \/ CliExit

SpecManager == Init /\ [][NextManager]_vars

\* ========================================================== server process
MaxSignals == 2       \* signals delivered in one behaviour
MaxServerTicks == 1   \* clock advances while the server process runs

Signals == {"SIGINT", "SIGTERM"}

\* The requests sent to the running server, and what the collaborators do.
ServerBodies == {BObject, BError, BNotJson, BArray}
ServerAnalyzerOutcomes ==
    {[raises |-> TRUE, results |-> <<>>],
     [raises |-> FALSE, results |-> <<>>],
     [raises |-> FALSE, results |-> << <<"HIGH">> >>]}
ServerRequests ==
    {Request("GET", path, BEmpty, NoFile) : path \in Paths}
        \cup {Request("POST", path, body, NoFile) :
                path \in {PErrorHelp, PAnalyze, PUnknown}, body \in ServerBodies}
        \cup {Request(method, PStatus, BEmpty, NoFile) : method \in OtherMethods}

\* What the handler of `request` does in the current state.
HandlerEffect(request, aout, dout) ==
    IF request.method = "GET"
    THEN do_GET(request.path, request.file, aout, status, start_time,
                task_count, now, <<>>)
    ELSE IF request.method = "POST"
    THEN do_POST(request.path, request.body, aout, dout, task_count, <<>>)
    ELSE do_OTHER(request.method, task_count, <<>>)

Alive == exited = "alive"
\* The main thread runs main()'s own code: it is not inside signal_handler.
MainRuns == Alive /\ sigpc = "none"

srvFrame == <<now, ticks, mgrVars>>

\* One step of main() that touches neither the bot nor the requests.
MainStep(from, to) ==
    /\ MainRuns
    /\ pc = from
    /\ pc' = to
    /\ UNCHANGED <<sigpc, hb, exited, sigs, oplog, stepVars, srvFrame>>

\* signal.signal(signal.SIGINT, signal_handler)
RegisterSigint ==
    /\ MainStep("register_sigint", "register_sigterm")
    /\ handlers' = handlers \cup {"SIGINT"}
    /\ UNCHANGED <<botVars, histVars>>

\* signal.signal(signal.SIGTERM, signal_handler)
RegisterSigterm ==
    /\ MainStep("register_sigterm", "banner")
    /\ handlers' = handlers \cup {"SIGTERM"}
    /\ UNCHANGED <<botVars, histVars>>

\* print(banner)
Banner ==
    /\ MainStep("banner", "start_running")
    /\ UNCHANGED <<handlers, botVars, histVars>>

\* bot.start(), statement by statement: a signal may be handled between two.
StartRunning ==
    /\ MainStep("start_running", "start_time")
    /\ running' = TRUE
    /\ everStarted' = TRUE
    /\ lastCall' = "start"
    /\ UNCHANGED <<handlers, start_time, task_count, status, firstStart>>

StartTime ==
    /\ MainStep("start_time", "start_status")
    /\ start_time' = now
    /\ firstStart' = IF TimeIsSet(firstStart) THEN firstStart ELSE now
    /\ UNCHANGED <<handlers, running, task_count, status, everStarted,
                   lastCall>>

StartStatus ==
    /\ MainStep("start_status", "start_log")
    /\ status' = "running"
    /\ UNCHANGED <<handlers, running, start_time, task_count, histVars>>

StartLog ==
    /\ MainRuns
    /\ pc = "start_log"
    /\ pc' = "spawn_heartbeat"
    /\ oplog' = log_operation(oplog, "bot_start", "SUCCESS", start_time)
    /\ UNCHANGED <<sigpc, hb, handlers, exited, sigs, botVars, histVars,
                   stepVars, srvFrame>>

\* threading.Thread(target=bot.heartbeat, daemon=True).start()
SpawnHeartbeat ==
    /\ MainRuns
    /\ pc = "spawn_heartbeat"
    /\ pc' = "serve"
    /\ hb' = "check"
    /\ UNCHANGED <<sigpc, handlers, exited, sigs, botVars, histVars, oplog,
                   stepVars, srvFrame>>

\* serve_forever accepts a request and calls its handler.
Accept ==
    /\ MainRuns
    /\ pc = "serve"
    /\ \E request \in ServerRequests : req' = request
    /\ pc' = "handling"
    /\ responses' = <<>>
    /\ invoked' = <<>>
    /\ raised' = "none"
    /\ ret' = NoValue
    /\ oplog' = <<>>
    /\ UNCHANGED <<sigpc, hb, handlers, exited, sigs, botVars, histVars,
                   srvFrame>>

\* The handler runs to its end: it answers, or its exception is reported by
\* the server, and serve_forever goes on.
Respond ==
    /\ MainRuns
    /\ pc = "handling"
    /\ \E aout \in ServerAnalyzerOutcomes, dout \in DocOutcomes :
          LET e == HandlerEffect(req, aout, dout)
          IN  /\ e.tc <= MaxTasks
              /\ task_count' = e.tc
              /\ oplog' = e.log
              /\ responses' = e.responses
              /\ invoked' = e.invoked
              /\ raised' = e.raised
    /\ pc' = "serve"
    /\ UNCHANGED <<req, ret, running, start_time, status, sigpc, hb, handlers,
                   exited, sigs, histVars, srvFrame>>

\* A signal arrives whose handler is signal_handler: the main thread enters
\* it before its next statement (also when it is already inside it).
Deliver ==
    /\ Alive
    /\ sigs < MaxSignals
    /\ \E sig \in handlers : sigpc' = "stop_running"
    /\ sigs' = sigs + 1
    /\ oplog' = <<>>
    /\ UNCHANGED <<pc, hb, handlers, exited, botVars, histVars, stepVars,
                   srvFrame>>

\* A signal arrives that still has its default disposition: SIGTERM ends the
\* process, SIGINT raises KeyboardInterrupt outside main()'s try block.
DeliverDefault ==
    /\ Alive
    /\ sigs < MaxSignals
    /\ \E sig \in Signals \ handlers :
          exited' = IF sig = "SIGTERM" THEN "killed by SIGTERM"
                    ELSE "KeyboardInterrupt"
    /\ sigs' = sigs + 1
    /\ UNCHANGED <<pc, sigpc, hb, handlers, botVars, histVars, oplog,
                   stepVars, srvFrame>>

\* signal_handler: bot.stop(), statement by statement, then sys.exit(0).
SigStep(from, to) ==
    /\ Alive
    /\ sigpc = from
    /\ sigpc' = to
    /\ UNCHANGED <<pc, hb, handlers, exited, sigs, stepVars, srvFrame>>

SigStopRunning ==
    /\ SigStep("stop_running", "stop_status")
    /\ running' = FALSE
    /\ lastCall' = "stop"
    /\ UNCHANGED <<start_time, task_count, status, everStarted, firstStart,
                   oplog>>

SigStopStatus ==
    /\ SigStep("stop_status", "stop_log")
    /\ status' = "stopped"
    /\ UNCHANGED <<running, start_time, task_count, histVars, oplog>>

SigStopLog ==
    /\ SigStep("stop_log", "exit")
    /\ oplog' = log_operation(oplog, "bot_stop", "SUCCESS", 0)
    /\ UNCHANGED <<botVars, histVars>>

\* sys.exit(0): SystemExit unwinds the main thread, whatever it was doing,
\* and the process ends with its daemon thread.
SigExit ==
    /\ Alive
    /\ sigpc = "exit"
    /\ exited' = "exit 0"
    /\ UNCHANGED <<pc, sigpc, hb, handlers, sigs, botVars, histVars, oplog,
                   stepVars, srvFrame>>

\* A heartbeat step that marks the bot stopped when it leaves the loop.
HbStep_WritesStatus(to) ==
    /\ Alive
    /\ hb' = to
    /\ status' = IF to = "done" THEN "stopped" ELSE status
    /\ UNCHANGED <<pc, sigpc, handlers, exited, sigs, running, start_time,
                   task_count, histVars, oplog, stepVars, srvFrame>>

\* AtenaBot.heartbeat, in the heartbeat thread.
HbStep(to) ==
    /\ Alive
    /\ hb' = to
    /\ UNCHANGED <<pc, sigpc, handlers, exited, sigs, botVars, histVars,
                   oplog, stepVars, srvFrame>>

\* A heartbeat loop that does not test the flag (while True).
HeartbeatCheck_IgnoresFlag ==
    /\ hb = "check"
    /\ HbStep("beat")

\* while self.running
HeartbeatCheck ==
    /\ hb = "check"
    /\ HbStep(IF running THEN "beat" ELSE "done")

\* logger.debug(... self.get_uptime() ...)
HeartbeatBeat ==
    /\ hb = "beat"
    /\ HbStep("sleep")

\* time.sleep(HEALTH_CHECK_INTERVAL)
HeartbeatSleep ==
    /\ hb = "sleep"
    /\ HbStep("check")

ServerTick ==
    /\ Alive
    /\ ticks < MaxServerTicks
    /\ \E d \in ClockSteps : now' = now + d
    /\ ticks' = ticks + 1
    /\ UNCHANGED <<botVars, histVars, oplog, stepVars, mgrVars, srvVars>>

NextServer ==
    \/ RegisterSigint
    \/ RegisterSigterm
    \/ Banner
    \/ StartRunning
    \/ StartTime
    \/ StartStatus
    \/ StartLog
    \/ SpawnHeartbeat
    \/ Accept
    \/ Respond
    \/ Deliver
    \/ DeliverDefault
    \/ SigStopRunning
    \/ SigStopStatus
    \/ SigStopLog
    \/ SigExit
    \/ HeartbeatCheck
    \/ HeartbeatBeat
    \/ HeartbeatSleep
    \/ ServerTick

SpecServer == Init /\ [][NextServer]_vars

\* The heartbeat thread is a thread of its own: the interpreter gives it its
\* turn whatever the main thread does, and time.sleep returns.
HeartbeatFairness ==
    /\ WF_vars(HeartbeatCheck)
    /\ WF_vars(HeartbeatBeat)
    /\ WF_vars(HeartbeatSleep)

SpecServerFair == SpecServer /\ HeartbeatFairness

\* ------------------------------------------------------- claims under Spec
IsHttp(method) == req.kind = "http" /\ req.method = method

\* C1: after any sequence of start()/stop() calls the bot is in the state of
\* the last call (running after start, stopped after stop), and get_uptime()
\* returns "Not started" exactly when start() has never been called.
C1_LastCallDecidesState ==
    /\ lastCall = "start" => (running /\ status = "running")
    /\ lastCall = "stop" => (~running /\ status = "stopped")
    /\ lastCall = "none" => (~running /\ status = "initialized")
    /\ (get_uptime(start_time, now) = NotStarted) <=> ~everStarted

\* start() then stop() have been called, and the clock has moved on.
C1_Witness ==
    /\ everStarted
    /\ lastCall = "stop"
    /\ now > start_time
    /\ get_uptime(start_time, now) # NotStarted

\* Number of analyze_project / get_error_help invocations in a sequence.
TaskCalls(inv) ==
    Cardinality({i \in 1..Len(inv) :
                    inv[i] \in {"analyze_project", "get_error_help"}})

\* C2: every step changes task_count by exactly the number of
\* analyze_project / get_error_help calls it makes (one per call, raising or
\* not), so the counter never decreases and no other operation changes it.
C2_TaskCountCountsCalls ==
    [][task_count' = task_count + TaskCalls(invoked')]_vars

\* A second task call, in which the collaborator raised, has been counted.
C2_Witness ==
    /\ task_count = 2
    /\ raised \in {"AnalyzerError", "DocAssistantError"}
    /\ TaskCalls(invoked) = 1

\* The bodies that carry a non-empty 'error' field.
HasNonEmptyError(body) == body = BError

\* C4: POST /error-help answers 400 with an 'error' field, invoking nothing,
\* for every body that is malformed JSON or has no non-empty 'error' field;
\* for every other body it invokes get_error_help once and answers 200.
C4_ErrorHelpValidation ==
    (IsHttp("POST") /\ req.path = PErrorHelp) =>
        IF ~HasNonEmptyError(req.body)
        THEN /\ Len(responses) = 1
             /\ responses[1].code = 400
             /\ "error" \in DOMAIN responses[1].body
             /\ invoked = <<>>
        ELSE /\ invoked = <<"get_error_help">>
             /\ raised = "none" => (Len(responses) = 1 /\ responses[1].code = 200)

\* The bodies that are well-formed JSON (no body at all counts as {}).
WellFormedJson(body) == body \notin {BNotJson, BBadUtf8}

\* The requests that match no row of the routing table.
Unrouted ==
    /\ req.kind = "http"
    /\ \/ req.method \notin {"GET", "POST"}
       \/ /\ req.method = "GET"
          /\ req.path \notin {PRoot, PHealth, PStatus, PAnalyze, PLogs}
          /\ ~StartsWith(req.path, PAnalyze \o <<"/">>)
       \/ /\ req.method = "POST"
          /\ req.path \notin {PErrorHelp, PAnalyze}
          /\ WellFormedJson(req.body)

\* C5: every request that matches no route gets exactly one response, 404
\* with {error: "Not found"}, and no bot method runs.
C5_UnroutedIs404 ==
    Unrouted =>
        /\ Len(responses) = 1
        /\ responses[1].code = 404
        /\ responses[1].body = ErrorBody("Not found")
        /\ invoked = <<>>

\* C6: on any POST path a body that is not well-formed JSON gets 400 with
\* {error: "Invalid JSON"} and no bot method runs.
C6_MalformedBodyIs400 ==
    (IsHttp("POST") /\ ~WellFormedJson(req.body)) =>
        /\ Len(responses) = 1
        /\ responses[1].code = 400
        /\ responses[1].body = ErrorBody("Invalid JSON")
        /\ invoked = <<>>

\* The last min(LOG_TAIL, n) lines of an n-line file, in file order.
LastLines(n) ==
    LET k == IF n < LOG_TAIL THEN n ELSE LOG_TAIL
    IN  [j \in 1..k |-> <<n - k + j>>]

\* C7: GET /logs returns {logs: []} when there is no log file, and otherwise
\* the last min(50, n) lines of the n-line file and nothing else.
C7_LogsTail ==
    (IsHttp("GET") /\ req.path = PLogs) =>
        /\ Len(responses) = 1
        /\ responses[1].code = 200
        /\ responses[1].body =
              [logs |-> IF req.file.exists THEN LastLines(req.file.n) ELSE <<>>]

\* The routes that only read the bot or the log file.
ReadOnlyRoutes == {PRoot, PHealth, PStatus, PLogs}

\* `r` is a get_status() call or a GET of a read-only route.
IsPureRead(r) ==
    \/ r.kind = "call" /\ r.name = "get_status"
    \/ r.kind = "http" /\ r.method = "GET" /\ r.path \in ReadOnlyRoutes

\* C14: get_status() and GET /, /health, /status and /logs are pure reads:
\* neither the step that performs one nor the step that ends it changes
\* task_count, status, running or start_time.
C14_ReadsArePure ==
    [][((req = NoReq /\ IsPureRead(req')) \/ (IsPureRead(req) /\ req' = NoReq))
          => /\ task_count' = task_count
             /\ status' = status
             /\ running' = running
             /\ start_time' = start_time]_vars

\* GET /status is answered for a started bot that has done one task.
C14_Witness ==
    /\ IsHttp("GET")
    /\ req.path = PStatus
    /\ running
    /\ task_count = 1
    /\ Len(responses) = 1
    /\ responses[1].code = 200
    /\ responses[1].body.tasks_processed = 1

\* The analyzer outcomes that are an exception.
RaisingOutcomes == {out \in AnalyzerOutcomes : out.raises}

IsStartedRecord(r) == r.op = "analyze_project" /\ r.status = "STARTED"
IsCompletedRecord(r) == r.op = "analyze_project" /\ r.status = "COMPLETED"

\* The analyzer's exception has escaped: nothing is returned, and STARTED is
\* the last record of the call, with no COMPLETED record.
Propagated ==
    /\ raised = "AnalyzerError"
    /\ ret = NoValue
    /\ oplog # <<>>
    /\ IsStartedRecord(oplog[Len(oplog)])
    /\ SelectSeq(oplog, IsCompletedRecord) = <<>>

\* The step is a GET request that reaches analyze_project, with the analyzer
\* doing `out`.
GetAnalyzeStep(out) ==
    \E path \in {PAnalyze, PAnalyzeSrc} :
        Handle(Request("GET", path, BEmpty, NoFile),
               do_GET(path, NoFile, out, status, start_time, task_count, now,
                      oplog))

\* The step is a POST /analyze request with a body that parses, with the
\* analyzer doing `out`.
PostAnalyzeStep(out) ==
    \E body \in {BEmpty, BObject, BPath, BError, BErrorEmpty} :
        Handle(Request("POST", PAnalyze, body, NoFile),
               do_POST(PAnalyze, body, out, "returns", task_count, oplog))

\* C17: when the analyzer raises during analyze_project, called directly or
\* by an HTTP handler, the exception escapes: no summary is returned, no
\* COMPLETED record follows the STARTED record, and the handler sends no
\* response, so no 200.
C17_AnalyzerFailurePropagates ==
    [][\A out \in RaisingOutcomes :
          /\ (\E path \in {Dot, <<"s", "r", "c">>} : AnalyzeProject(path, out))
                => Propagated'
          /\ (GetAnalyzeStep(out) \/ PostAnalyzeStep(out))
                => Propagated' /\ responses' = <<>>]_vars

\* GET /analyze/src on a bot that has done a task before: the analyzer has
\* raised and the request is left without a response.
C17_Witness ==
    /\ IsHttp("GET")
    /\ req.path = PAnalyzeSrc
    /\ Propagated
    /\ responses = <<>>
    /\ invoked = <<"analyze_project">>
    /\ task_count = 2

\* The analyzer outcomes that are a sequence of per-file results.
ReturningOutcomes == {out \in AnalyzerOutcomes : ~out.raises}

\* The number of issues tagged `tag` in the results, counted by position.
Occurrences(results, tag) ==
    Cardinality({ij \in (1..Len(results)) \X (1..MaxResultSize) :
                    /\ ij[2] <= Len(results[ij[1]])
                    /\ results[ij[1]][ij[2]] = tag})

RECURSIVE SumOver(_, _)
SumOver(f, S) ==
    IF S = {} THEN 0
    ELSE LET x == CHOOSE y \in S : TRUE IN f[x] + SumOver(f, S \ {x})

\* `summary` is the AnalysisSummary of `results`.
SummaryOf(summary, results) ==
    /\ summary.files_analyzed = Len(results)
    /\ summary.total_issues = SumOver([i \in 1..Len(results) |-> Len(results[i])],
                                      1..Len(results))
    /\ \A tag \in IssueTags :
          Occurrences(results, tag) > 0 =>
              /\ tag \in DOMAIN summary.issues_by_severity
              /\ summary.issues_by_severity[tag] = Occurrences(results, tag)
    /\ summary.total_issues = SumOver(summary.issues_by_severity,
                                      DOMAIN summary.issues_by_severity)

\* C18: whatever sequence of per-file results the analyzer returns,
\* analyze_project returns a summary whose files_analyzed is the number of
\* results, whose total_issues is the number of issues, whose
\* issues_by_severity counts each issue once under its tag, and whose
\* total_issues is the sum of those counts.
C18_SummaryFoldsResults ==
    [][\A out \in ReturningOutcomes :
          (\E path \in {Dot, <<"s", "r", "c">>} : AnalyzeProject(path, out))
              => /\ raised' = "none"
                 /\ ret' # NoValue
                 /\ SummaryOf(ret', out.results)]_vars

\* The step is the call `name` of the bot.
CallStep(name) ==
    /\ req = NoReq
    /\ req'.kind = "call"
    /\ req'.name = name

\* The seconds an uptime stands for.
Seconds(u) == u.h * 3600 + u.m * 60 + u.s

\* C19: start() can be called in every state of the bot and is never
\* rejected: every call, also on a running or a stopped bot, sets start_time
\* to the time of the call and nothing else changes start_time, so the
\* uptime get_status() reports is the time since the most recent start().
C19_StartRestartsUptime ==
    /\ [](req = NoReq => ENABLED Start)
    /\ [][/\ CallStep("start") =>
                /\ start_time' = now
                /\ running'
                /\ status' = "running"
                /\ raised' = "none"
          /\ ~CallStep("start") => start_time' = start_time
          /\ (CallStep("get_status") /\ everStarted) =>
                /\ ret'.bot.uptime.text # NotStarted.text
                /\ Seconds(ret'.bot.uptime) = now - start_time]_vars

\* start() was called at time 0 and again an hour later; one second after
\* that, get_status() reports an uptime of one second.
C19_Witness ==
    /\ req.kind = "call"
    /\ req.name = "get_status"
    /\ firstStart = 0
    /\ start_time = 3600
    /\ now = 3601
    /\ Seconds(ret.bot.uptime) = 1

\* ------------------------------------------------ claims under SpecManager
\* The invocation `name` has made its subprocess.run call and ended.
Ended(names) ==
    /\ req.kind = "call"
    /\ req.name \in names
    /\ mpc = "idle"
    /\ req.outcome.kind # "none"

\* C8: CommandExecutor.run never raises and returns (exit code == 0, stdout,
\* stderr) on completion, (false, "", "Command timed out") on a timeout and
\* (false, "", the error's text) on any other failure.
C8_RunClassifiesOutcome ==
    Ended({"run"}) =>
        /\ raised = "none"
        /\ req.outcome.kind = "completed" =>
              ret = Triple(req.outcome.returncode = 0, req.outcome.stdout,
                           req.outcome.stderr)
        /\ req.outcome.kind = "timeout" =>
              ret = Triple(FALSE, "", "Command timed out")
        /\ req.outcome.kind = "error" => ret = Triple(FALSE, "", req.outcome.msg)

\* A run whose command ran past its timeout has returned.
C8_Witness ==
    /\ Ended({"run"})
    /\ req.outcome.kind = "timeout"
    /\ ret.success = FALSE

IsCommandRecord(r) == r.op = "command_execute"
CommandRecords == SelectSeq(oplog, IsCommandRecord)

\* The failure reason logged for an outcome that is not a completion.
FailureReason(command, o) ==
    IF o.kind = "timeout" THEN <<"Command timed out: ", command>> ELSE <<o.msg>>

\* C9: the command_execute records are STARTED, terminal, STARTED, terminal,
\* ...: a run that is executing has written its STARTED record and no
\* terminal one; a run that has ended has written after it exactly one
\* SUCCESS or FAILED record, whose detail is the exit code or the failure
\* reason.
C9_StartedThenOneTerminal ==
    LET recs == CommandRecords
        n == Len(recs)
    IN  /\ \A i \in 1..n :
              IF i % 2 = 1 THEN recs[i].status = "STARTED"
              ELSE recs[i].status \in {"SUCCESS", "FAILED"}
        /\ mpc = "run" =>
              /\ n % 2 = 1
              /\ oplog[Len(oplog)].op = "command_execute"
              /\ recs[n].detail = <<req.arg>>
        /\ mpc # "run" => n % 2 = 0
        /\ Ended({"run"}) =>
              /\ n >= 2
              /\ oplog[Len(oplog)].op = "command_execute"
              /\ recs[n - 1].detail = <<req.arg>>
              /\ recs[n].status =
                    (IF req.outcome.kind = "completed" /\ req.outcome.returncode = 0
                     THEN "SUCCESS" ELSE "FAILED")
              /\ recs[n].detail =
                    (IF req.outcome.kind = "completed"
                     THEN <<"Exit code: ", ToString(req.outcome.returncode)>>
                     ELSE FailureReason(req.arg, req.outcome))

\* Two runs have ended, the second one on a command that could not be
\* executed.
C9_Witness ==
    /\ Ended({"run"})
    /\ req.outcome.kind = "error"
    /\ Len(CommandRecords) = 4

\* C10: whatever the package-manager subprocess does, install_dependencies,
\* install_package and list_installed return instead of raising, and the two
\* install operations return true exactly when it exited zero.
C10_NoRaisePastDependencyManager ==
    Ended({"install_dependencies", "install_package", "list_installed"}) =>
        /\ raised = "none"
        /\ req.name # "list_installed" =>
              ret = Bool(req.outcome.kind = "completed"
                         /\ req.outcome.returncode = 0)

\* An install_dependencies invocation on a manifest that does not exist.
NoManifest(r) ==
    /\ r.kind = "call"
    /\ r.name = "install_dependencies"
    /\ r.arg = "no manifest"

\* C11: install_dependencies() on a manifest that does not exist returns
\* false, logs the file-not-found error as its only record (so no STARTED
\* record) and makes no subprocess call, for either value of upgrade.
C11_MissingManifest ==
    [][NoManifest(req') =>
          /\ ret' = Bool(FALSE)
          /\ raised' = "none"
          /\ spawned' = 0
          /\ mpc' = "idle"
          /\ calls' = calls + 1 =>
                oplog' = Append(oplog,
                                [op |-> "install_dependencies",
                                 status |-> "FAILED",
                                 detail |-> <<"Requirements file not found: ",
                                              RequirementsPath>>])]_vars

\* install_dependencies(upgrade=True) has returned false on a missing
\* manifest, after an earlier invocation.
C11_Witness ==
    /\ NoManifest(req)
    /\ req.upgrade
    /\ ret = Bool(FALSE)
    /\ spawned = 0
    /\ calls = 2
    /\ oplog[Len(oplog)].status = "FAILED"

\* The subprocess of the current invocation ran and exited zero.
SubprocessSucceeded ==
    /\ req.outcome.kind = "completed"
    /\ req.outcome.returncode = 0

\* C13: the CLI exits with code 0 when its install or run operation
\* succeeded and with code 1 when it failed, and the analyze subcommand
\* exits with code 0 whatever the analyzer did.
C13_CliExitCodes ==
    cli.pc = "exited" =>
        /\ cli.command \in {"install", "run"} =>
              cli.code = (IF SubprocessSucceeded THEN 0 ELSE 1)
        /\ cli.command = "analyze" => cli.code = 0

\* -------------------------------------------------- claims under SpecServer
\* C3: in the server process, once main() has registered both signal
\* handlers, the status only ever goes from initialized to running and from
\* running to stopped.
C3_OnlyValidTransitions ==
    [][(handlers = Signals /\ status' # status) =>
          \/ status = "initialized" /\ status' = "running"
          \/ status = "running" /\ status' = "stopped"]_vars

\* The process has left signal_handler through sys.exit(0).
ExitedByHandler == exited = "exit 0"

\* stop() has run to its end: both fields written and the record logged.
StopCompleted ==
    /\ running = FALSE
    /\ status = "stopped"
    /\ oplog # <<>>
    /\ oplog[Len(oplog)].op = "bot_stop"

\* C12: once both handlers are registered, a SIGINT or SIGTERM shuts the
\* server process down in order: the process exits, with code 0, only after
\* stop() has run to completion (running = False, status = stopped, bot_stop
\* logged), and no HTTP request is in its handler when the exit unwinds the
\* main thread.
C12_OrderlyShutdown ==
    /\ sigpc = "exit" => StopCompleted
    /\ ExitedByHandler => StopCompleted /\ pc # "handling"
    /\ (handlers = Signals /\ ~Alive) => ExitedByHandler

\* The heartbeat thread exists and is inside its loop.
HeartbeatLoops == hb \in {"check", "beat", "sleep"}

\* C15: the heartbeat loop is left only at a test of the flag that finds the
\* bot no longer running, and once stop() has completed (no start() follows
\* it in the server process) a fairly scheduled heartbeat thread eventually
\* leaves the loop, unless the process ends first and the thread with it.
C15_HeartbeatTerminates ==
    /\ [][(hb' = "done" /\ hb # "done") => (hb = "check" /\ ~running)]_vars
    /\ (StopCompleted /\ HeartbeatLoops) ~> (hb = "done" \/ ~Alive)

\* The heartbeat thread has left its loop after stop(), in a process that
\* has not exited yet.
C15_Witness ==
    /\ hb = "done"
    /\ StopCompleted
    /\ Alive

lifecycle == <<status, running, start_time>>

\* The step is a statement of start() in main() or of stop() in
\* signal_handler.
StartOrStopStep ==
    \/ pc \in {"start_running", "start_time", "start_status"} /\ pc' # pc
    \/ sigpc \in {"stop_running", "stop_status"} /\ sigpc' # sigpc

\* The step is one of the heartbeat thread, or the listener accepting a
\* request or a handler running to its end.
HeartbeatOrHttpStep ==
    \/ hb' # hb
    \/ pc = "serve" /\ pc' = "handling"
    \/ pc = "handling" /\ pc' = "serve"

\* C16: in the server process, under every interleaving of the main thread,
\* the heartbeat thread and signal delivery, status, running and start_time
\* are written only by the statements of start() and stop(): no heartbeat
\* step and no HTTP request, whatever its route and method, changes them.
C16_LifecycleWriters ==
    [][/\ lifecycle' # lifecycle => StartOrStopStep
       /\ HeartbeatOrHttpStep => lifecycle' = lifecycle]_vars

\* A POST has been handled and counted as a task while the heartbeat thread
\* sleeps, and the bot is still running as start() left it.
C16_Witness ==
    /\ pc = "serve"
    /\ IsHttp("POST")
    /\ task_count = 1
    /\ hb = "sleep"
    /\ status = "running"
    /\ running
    /\ start_time = 0
    /\ handlers = Signals

\* start() in main() or stop() in signal_handler has written its fields, and
\* no later call is in progress.
CallCompleted ==
    \/ sigpc = "none" /\ pc \in {"start_log", "spawn_heartbeat", "serve",
                                 "handling"}
    \/ sigpc \in {"stop_log", "exit"}

\* The heartbeat thread is about to read the bot: the flag in its loop test,
\* start_time in get_uptime.
HeartbeatObserves == Alive /\ hb \in {"check", "beat"}

\* An HTTP handler is running and reads the bot.
HandlerObserves == Alive /\ pc = "handling" /\ sigpc = "none"

LifecycleAgrees ==
    /\ running <=> status = "running"
    /\ status = "running" => TimeIsSet(start_time)

\* C20: after every completed start() or stop(), and wherever the heartbeat
\* thread or an HTTP handler can observe the bot, running is True exactly
\* when status is "running", and status "running" implies start_time is set.
C20_LifecycleConsistent ==
    (CallCompleted \/ HeartbeatObserves \/ HandlerObserves) => LifecycleAgrees

====
